---- MODULE Spec2Model ----
(***************************************************************************)
(* ClassAnalyzer (ai_init_data/class_analyzer.py): the structural class    *)
(* analyzer, modelled over a small universe of Python class objects.       *)
(*                                                                         *)
(* A class object is its __name__, __bases__, __mro__ and own namespace    *)
(* (__dict__); a namespace entry is a record                               *)
(*   [kind, code, abstract, fname]                                         *)
(* kind: "function" | "property" | "classmethod" | "staticmethod" | "var"  *)
(*       | "builtin" (a slot wrapper of object) | "absent";                *)
(* code: the identity of the compiled body (__code__.co_code) of the       *)
(*       function, of the wrapped function, or of the property's getter;   *)
(*       0 where there is none;                                            *)
(* abstract: __isabstractmethod__; fname: the function's __name__.         *)
(* An operator that can raise returns [exc, val]: exc = "none" and the     *)
(* value, or the name of the exception.                                    *)
(***************************************************************************)
EXTENDS Integers, Sequences, FiniteSets, TLC

VARIABLES
    classDict,       \* class id -> attribute name -> namespace entry (cls.__dict__)
    dataclassIds,    \* the classes decorated with @dataclass
    sourceAvailable, \* whether inspect.getsource finds the source file
    _seen_classes,   \* ClassAnalyzer._seen_classes of the live analyzer instance
    delivered,       \* history: classes whose full descriptor this instance returned
    result,          \* the outcome of the last public call
    declaredFields,  \* the field declarations of the classes that declare fields
    classSource,     \* the function definitions in the parsed source of a class
    responses        \* Applicant.responses of the live aggregate: job id -> list

vars == <<classDict, dataclassIds, sourceAvailable, _seen_classes, delivered, result,
          declaredFields, classSource, responses>>

world == <<classDict, dataclassIds, sourceAvailable, declaredFields, classSource>>

(***************************************************************************)
(* Bounds of the model.                                                    *)
(***************************************************************************)
MaxBatch == 2       \* longest argument list of analyze / to_json
MaxFields == 2      \* most fields a class declares
MaxDepth == 2       \* deepest nesting of a decorator expression
MaxDecorators == 2  \* most decorators on a function definition
NumCodes == 2       \* distinct compiled bodies a declared function may have

None == "<None>"

Ret(v) == [exc |-> "none", val |-> v]

Raise(e, v) == [exc |-> e, val |-> v]

Min(S) == CHOOSE x \in S : \A y \in S : x <= y

(***************************************************************************)
(* Attribute names and Python's str operations on them.                    *)
(***************************************************************************)
\* sorted as Python sorts str: inspect.getmembers returns members by name
NameOrder == <<"__eq__", "__init__", "__replace__", "__run", "_run", "run">>

Names == {NameOrder[i] : i \in DOMAIN NameOrder}

Chars(s) ==
    CASE s = "__eq__"      -> <<"_", "_", "e", "q", "_", "_">>
      [] s = "__init__"    -> <<"_", "_", "i", "n", "i", "t", "_", "_">>
      [] s = "__replace__" -> <<"_", "_", "r", "e", "p", "l", "a", "c", "e", "_", "_">>
      [] s = "__run"       -> <<"_", "_", "r", "u", "n">>
      [] s = "_run"        -> <<"_", "r", "u", "n">>
      [] s = "run"         -> <<"r", "u", "n">>
      [] s = "_"           -> <<"_">>
      [] s = "__"          -> <<"_", "_">>

startswith(s, prefix) ==
    LET cs == Chars(s)
        ps == Chars(prefix)
    IN  /\ Len(ps) <= Len(cs)
        /\ SubSeq(cs, 1, Len(ps)) = ps

_init_magic_methods == {
    "__abs__", "__add__", "__aenter__", "__aexit__", "__aiter__", "__and__",
    "__anext__", "__bool__", "__call__", "__contains__", "__delattr__",
    "__delitem__", "__dir__", "__divmod__", "__enter__", "__eq__",
    "__exit__", "__float__", "__floordiv__", "__ge__", "__getattr__",
    "__getattribute__", "__getitem__", "__gt__", "__hash__", "__iadd__",
    "__iand__", "__ifloordiv__", "__ilshift__", "__imatmul__", "__imod__",
    "__imul__", "__index__", "__init__", "__init_subclass__", "__int__",
    "__invert__", "__ior__", "__ipow__", "__irshift__", "__isub__",
    "__iter__", "__itruediv__", "__ixor__", "__le__", "__len__",
    "__lshift__", "__lt__", "__matmul__", "__mod__", "__mul__", "__ne__",
    "__neg__", "__new__", "__next__", "__or__", "__pos__", "__pow__",
    "__radd__", "__rand__", "__rdivmod__", "__reduce__", "__reduce_ex__",
    "__repr__", "__reversed__", "__rfloordiv__", "__rlshift__",
    "__rmatmul__", "__rmod__", "__rmul__", "__ror__", "__round__",
    "__rpow__", "__rrshift__", "__rshift__", "__rsub__", "__rtruediv__",
    "__rxor__", "__setattr__", "__setitem__", "__sizeof__", "__str__",
    "__sub__", "__subclasshook__", "__truediv__", "__xor__"
}

_magic_methods == _init_magic_methods

(***************************************************************************)
(* The class universe: ABC <- A <- {B1, B2} <- C (C has two direct bases), *)
(* and M, a direct subclass of pydantic's BaseModel.                       *)
(***************************************************************************)
ClassIds == {"A", "B1", "B2", "C"}

__name__(cls) == cls

\* __bases__ and __mro__ (the C3 linearisation Python computes when the class
\* is created) of every class object
Bases ==
    [object    |-> <<>>,
     ABC       |-> <<"object">>,
     BaseModel |-> <<"object">>,
     A         |-> <<"ABC">>,
     B1        |-> <<"A">>,
     B2        |-> <<"A">>,
     C         |-> <<"B1", "B2">>,
     M         |-> <<"BaseModel">>]

Mro ==
    [object    |-> <<"object">>,
     ABC       |-> <<"ABC", "object">>,
     BaseModel |-> <<"BaseModel", "object">>,
     A         |-> <<"A", "ABC", "object">>,
     B1        |-> <<"B1", "A", "ABC", "object">>,
     B2        |-> <<"B2", "A", "ABC", "object">>,
     C         |-> <<"C", "B1", "B2", "A", "ABC", "object">>,
     M         |-> <<"M", "BaseModel", "object">>]

__bases__(cls) == Bases[cls]

__mro__(cls) == Mro[cls]

\* issubclass(cls, base)
issubclass(cls, base) == \E i \in DOMAIN Mro[cls] : Mro[cls][i] = base

Absent == [kind |-> "absent", code |-> 0, abstract |-> FALSE, fname |-> ""]

Builtin(n) == [kind |-> "builtin", code |-> 0, abstract |-> FALSE, fname |-> n]

Function(n, c, a) == [kind |-> "function", code |-> c, abstract |-> a, fname |-> n]

Property(n, c) == [kind |-> "property", code |-> c, abstract |-> FALSE, fname |-> n]

ClassMethod(n, c) == [kind |-> "classmethod", code |-> c, abstract |-> FALSE, fname |-> n]

StaticMethod(n, c) == [kind |-> "staticmethod", code |-> c, abstract |-> FALSE, fname |-> n]

Var == [kind |-> "var", code |-> 0, abstract |-> FALSE, fname |-> ""]

\* the namespaces of the library classes: the slot wrappers every class
\* inherits from object, and BaseModel's own __eq__ and __init__; M declares
\* fields only
LibraryDict ==
    [object    |-> [n \in Names |->
                      IF n \in {"__eq__", "__init__"} THEN Builtin(n) ELSE Absent],
     ABC       |-> [n \in Names |-> Absent],
     BaseModel |-> [n \in Names |->
                      IF n \in {"__eq__", "__init__"} THEN Function(n, 0, FALSE)
                      ELSE Absent],
     M         |-> [n \in Names |-> Absent]]

\* cls.__dict__[name], Absent when the name is not in the namespace
__dict__(cls, name) ==
    IF cls \in ClassIds THEN classDict[cls][name] ELSE LibraryDict[cls][name]

InDict(cls, name) == __dict__(cls, name).kind # "absent"

FirstPresent(entry, rest) == IF entry.kind # "absent" THEN entry ELSE rest

\* the MRO lookup of type.__getattribute__, from position i of the MRO on:
\* the entry of the first class whose namespace holds the name
RECURSIVE type_lookup(_, _, _)
type_lookup(mro, name, i) ==
    IF i > Len(mro) THEN Absent
    ELSE FirstPresent(__dict__(mro[i], name), type_lookup(mro, name, i + 1))

\* the descriptor protocol on a class: a classmethod comes back as a bound
\* method, a staticmethod as its plain function, anything else as itself
Bind(raw) ==
    CASE raw.kind = "classmethod"  -> [raw EXCEPT !.kind = "method"]
      [] raw.kind = "staticmethod" -> [raw EXCEPT !.kind = "function"]
      [] OTHER                     -> raw

\* getattr(cls, name); an entry of kind "absent" stands for AttributeError,
\* so hasattr(cls, name) is getattr(cls, name).kind # "absent"
getattr(cls, name) == Bind(type_lookup(__mro__(cls), name, 1))

hasattr(cls, name) == getattr(cls, name).kind # "absent"

dir(cls) == {n \in Names : hasattr(cls, n)}

\* inspect.getmembers(cls): the (name, value) pairs of dir(cls), sorted by name
getmembers(cls) ==
    SelectSeq([i \in DOMAIN NameOrder |->
                  [name |-> NameOrder[i], member |-> getattr(cls, NameOrder[i])]],
              LAMBDA p : p.member.kind # "absent")

inspect_isfunction(member) == member.kind = "function"

inspect_ismethod(member) == member.kind = "method"

isinstance_property(member) == member.kind = "property"

\* functions and bound methods carry __code__ and __name__; nothing else does
has__code__(member) == member.kind \in {"function", "method"}

\* dataclasses.is_dataclass(cls): __dataclass_fields__ is found through the MRO
is_dataclass(cls) == \E d \in dataclassIds : issubclass(cls, d)

issubclass_BaseModel(cls) == issubclass(cls, "BaseModel")

(***************************************************************************)
(* Redefinition tests (class_analyzer.py 290-313).                         *)
(***************************************************************************)
\* the loop over cls.__bases__ from base i on: it returns at the first base
\* that exposes the name as a plain function; reading __code__ of a member
\* that has none raises AttributeError
RECURSIVE MethodBasesLoop(_, _, _, _)
MethodBasesLoop(bases, i, name, method) ==
    IF i > Len(bases) THEN Ret(FALSE)
    ELSE IF inspect_isfunction(getattr(bases[i], name))
    THEN IF has__code__(method)
         THEN Ret(method.code # getattr(bases[i], name).code)
         ELSE Raise("AttributeError", FALSE)
    ELSE MethodBasesLoop(bases, i + 1, name, method)

\* _is_method_redefined without lines 292-293, the look into cls.__dict__
_is_method_redefined_NoFastPath(cls, name, method) ==
    MethodBasesLoop(__bases__(cls), 1, name, method)

\* _is_method_redefined comparing with every direct base, not the first only
_is_method_redefined_AnyBase(cls, name, method) ==
    IF InDict(cls, name) THEN Ret(TRUE)
    ELSE Ret(\E i \in DOMAIN __bases__(cls) :
                /\ inspect_isfunction(getattr(__bases__(cls)[i], name))
                /\ method.code # getattr(__bases__(cls)[i], name).code)

_is_method_redefined(cls, name, method) ==
    IF InDict(cls, name) THEN Ret(TRUE)
    ELSE MethodBasesLoop(__bases__(cls), 1, name, method)

\* the loop over cls.__bases__ from base i on: at a base whose attribute is a
\* property, prop.fget is read (AttributeError when prop is no property) and
\* the loop returns if both getters exist
RECURSIVE PropertyBasesLoop(_, _, _, _)
PropertyBasesLoop(bases, i, name, prop) ==
    IF i > Len(bases) THEN Ret(FALSE)
    ELSE IF isinstance_property(getattr(bases[i], name))
    THEN IF ~isinstance_property(prop) THEN Raise("AttributeError", FALSE)
         ELSE IF prop.code # 0 /\ getattr(bases[i], name).code # 0
         THEN Ret(prop.code # getattr(bases[i], name).code)
         ELSE PropertyBasesLoop(bases, i + 1, name, prop)
    ELSE PropertyBasesLoop(bases, i + 1, name, prop)

\* _is_property_redefined without lines 305-306, the look into cls.__dict__
_is_property_redefined_NoFastPath(cls, name, prop) ==
    PropertyBasesLoop(__bases__(cls), 1, name, prop)

_is_property_redefined(cls, name, prop) ==
    IF InDict(cls, name) THEN Ret(TRUE)
    ELSE PropertyBasesLoop(__bases__(cls), 1, name, prop)

\* not m or not p, left to right with short circuit
SkipUnless(m, p) ==
    IF m.exc # "none" THEN m
    ELSE IF ~m.val THEN Ret(TRUE)
    ELSE IF p.exc # "none" THEN p
    ELSE Ret(~p.val)

\* _should_skip_member with "not m and not p" for its test: it keeps a member
\* that passes either test
_should_skip_member_EitherTest(name, member, cls) ==
    IF name \in {"__init__", "__replace__"} /\ is_dataclass(cls) THEN Ret(TRUE)
    ELSE IF _is_method_redefined(cls, name, member).exc # "none"
    THEN _is_method_redefined(cls, name, member)
    ELSE IF _is_method_redefined(cls, name, member).val THEN Ret(FALSE)
    ELSE IF _is_property_redefined(cls, name, member).exc # "none"
    THEN _is_property_redefined(cls, name, member)
    ELSE Ret(~_is_property_redefined(cls, name, member).val)

\* _should_skip_member without lines 399-400, the rule of the record types
_should_skip_member_NoRecordRule(name, member, cls) ==
    SkipUnless(_is_method_redefined(cls, name, member),
               _is_property_redefined(cls, name, member))

_should_skip_member(name, member, cls) ==
    IF name \in {"__init__", "__replace__"} /\ is_dataclass(cls) THEN Ret(TRUE)
    ELSE SkipUnless(_is_method_redefined(cls, name, member),
                    _is_property_redefined(cls, name, member))

(***************************************************************************)
(* Accessor extraction (class_analyzer.py 130-150, 195-200, 233-288).      *)
(***************************************************************************)
\* the text inspect.getsource returns for a function
SourceText(fn) == "def " \o fn.fname \o ": body " \o ToString(fn.code)

\* inspect.getsource raises OSError when the source cannot be retrieved
_get_method_source(method) ==
    IF sourceAvailable THEN SourceText(method) ELSE None

\* MethodInfo that takes every name with two leading underscores for private
MethodInfo_PrivateByPrefix(method, method_name, is_redefined) ==
    [name         |-> method_name,
     type         |-> "method",
     is_abstract  |-> method.abstract,
     is_protected |-> startswith(method_name, "_") /\ ~startswith(method_name, "__"),
     is_private   |-> startswith(method_name, "__"),
     is_magic     |-> method_name \in _magic_methods,
     source       |-> IF is_redefined THEN _get_method_source(method) ELSE None,
     is_redefined |-> is_redefined]

\* MethodInfo that captures the source whether or not the method is redefined
MethodInfo_AlwaysSource(method, method_name, is_redefined) ==
    [name         |-> method_name,
     type         |-> "method",
     is_abstract  |-> method.abstract,
     is_protected |-> startswith(method_name, "_") /\ ~startswith(method_name, "__"),
     is_private   |-> startswith(method_name, "__") /\ method_name \notin _magic_methods,
     is_magic     |-> method_name \in _magic_methods,
     source       |-> _get_method_source(method),
     is_redefined |-> is_redefined]

MethodInfo(method, method_name, is_redefined) ==
    [name         |-> method_name,
     type         |-> "method",
     is_abstract  |-> method.abstract,
     is_protected |-> startswith(method_name, "_") /\ ~startswith(method_name, "__"),
     is_private   |-> startswith(method_name, "__") /\ method_name \notin _magic_methods,
     is_magic     |-> method_name \in _magic_methods,
     source       |-> IF is_redefined THEN _get_method_source(method) ELSE None,
     is_redefined |-> is_redefined]

\* _process_method that captures no source for an abstract method
_process_method_NoAbstractSource(cls, name, method) ==
    [name         |-> IF method.fname # "" THEN method.fname ELSE name,
     type         |-> "method",
     is_abstract  |-> method.abstract,
     is_protected |-> FALSE,
     is_private   |-> FALSE,
     is_magic     |-> FALSE,
     source       |-> IF _is_method_redefined(cls, name, method).val /\ ~method.abstract
                      THEN _get_method_source(method) ELSE None,
     is_redefined |-> _is_method_redefined(cls, name, method).val]

_process_method(cls, name, method) ==
    MethodInfo(method,
               IF method.fname # "" THEN method.fname ELSE name,
               _is_method_redefined(cls, name, method).val)

\* prop.fget is None when code = 0
_get_property_source(prop, is_getter) ==
    IF is_getter /\ prop.code # 0 /\ sourceAvailable THEN SourceText(prop)
    ELSE None

PropertyInfo(prop, prop_name, is_redefined) ==
    [name          |-> prop_name,
     type          |-> "property",
     is_abstract   |-> prop.abstract,
     is_protected  |-> startswith(prop_name, "_") /\ ~startswith(prop_name, "__"),
     is_private    |-> startswith(prop_name, "__"),
     source_getter |-> IF is_redefined THEN _get_property_source(prop, TRUE) ELSE None,
     source_setter |-> IF is_redefined THEN _get_property_source(prop, FALSE) ELSE None,
     is_redefined  |-> is_redefined]

_extract_property_info(cls, name, prop) ==
    PropertyInfo(prop,
                 IF prop.code # 0 THEN prop.fname ELSE name,
                 _is_property_redefined(cls, name, prop).val)

\* same __module__ and __qualname__: the same declaration
_is_inherited_from_base_model(cls, name, member) ==
    IF ~issubclass_BaseModel(cls) \/ ~hasattr("BaseModel", name) THEN FALSE
    ELSE IF inspect_isfunction(member)
    THEN member = getattr("BaseModel", name)
    ELSE IF isinstance_property(member)
    THEN member.code # 0 /\ member = getattr("BaseModel", name)
    ELSE FALSE

(***************************************************************************)
(* Member lists (class_analyzer.py 113-128, 225-231).                      *)
(***************************************************************************)
\* what one member adds to the methods list
MethodEntry(cls, name, member) ==
    IF member.kind \in {"classmethod", "staticmethod"}
    THEN <<[_process_method(cls, name, [member EXCEPT !.kind = "function"])
              EXCEPT !.type = member.kind]>>
    ELSE IF inspect_isfunction(member) \/ inspect_ismethod(member)
    THEN <<_process_method(cls, name, member)>>
    ELSE <<>>

\* the for loop of _get_class_methods from member i on
RECURSIVE MethodsLoop(_, _, _, _), MethodsStep(_, _, _, _, _)
MethodsLoop(cls, members, i, methods) ==
    IF i > Len(members) THEN Ret(methods)
    ELSE MethodsStep(cls, members, i, methods,
             _should_skip_member(members[i].name, members[i].member, cls))

MethodsStep(cls, members, i, methods, skip) ==
    IF skip.exc # "none" THEN Raise(skip.exc, <<>>)
    ELSE IF skip.val THEN MethodsLoop(cls, members, i + 1, methods)
    ELSE MethodsLoop(cls, members, i + 1,
             methods \o MethodEntry(cls, members[i].name, members[i].member))

_get_class_methods(cls) == MethodsLoop(cls, getmembers(cls), 1, <<>>)

RECURSIVE PropertiesLoop(_, _, _)
PropertiesLoop(cls, members, i) ==
    IF i > Len(members) THEN <<>>
    ELSE IF /\ isinstance_property(members[i].member)
            /\ ~_is_inherited_from_base_model(cls, members[i].name, members[i].member)
    THEN <<_extract_property_info(cls, members[i].name, members[i].member)>>
         \o PropertiesLoop(cls, members, i + 1)
    ELSE PropertiesLoop(cls, members, i + 1)

\* _get_class_properties that lists the redefined properties only
_get_class_properties_Filtered(cls) ==
    SelectSeq(PropertiesLoop(cls, getmembers(cls), 1), LAMBDA q : q.is_redefined)

_get_class_properties(cls) == PropertiesLoop(cls, getmembers(cls), 1)

(***************************************************************************)
(* Decorator recovery (class_analyzer.py 202-223).                         *)
(***************************************************************************)
\* the nodes of the syntax tree a decorator can be
ast_Name(id) == [node |-> "Name", id |-> id]

ast_Attribute(value, attr) == [node |-> "Attribute", value |-> value, attr |-> attr]

ast_Call(func) == [node |-> "Call", func |-> func]

ast_Lambda == [node |-> "Lambda"]

ast_FunctionDef(name, decorator_list) ==
    [node |-> "FunctionDef", name |-> name, decorator_list |-> decorator_list]

\* _get_decorator_name that does not look into a call
_get_decorator_name_CallUnknown(decorator) ==
    CASE decorator.node = "Name"      -> decorator.id
      [] decorator.node = "Attribute" -> decorator.attr
      [] OTHER                        -> "unknown_decorator"

RECURSIVE _get_decorator_name(_)
_get_decorator_name(decorator) ==
    IF decorator.node = "Name" THEN decorator.id
    ELSE IF decorator.node = "Attribute" THEN decorator.attr
    ELSE IF decorator.node = "Call" THEN _get_decorator_name(decorator.func)
    ELSE "unknown_decorator"

\* ast.walk over the parsed source from definition i on: the decorators of
\* the first function definition of that name
RECURSIVE WalkFrom(_, _, _)
WalkFrom(defs, i, method_name) ==
    IF i > Len(defs) THEN <<>>
    ELSE IF defs[i].node = "FunctionDef" /\ defs[i].name = method_name
    THEN [k \in DOMAIN defs[i].decorator_list |->
             _get_decorator_name(defs[i].decorator_list[k])]
    ELSE WalkFrom(defs, i + 1, method_name)

\* inspect.getsource(cls) raises OSError when the source cannot be retrieved
_get_method_decorators(cls, method_name) ==
    IF sourceAvailable THEN WalkFrom(classSource, 1, method_name) ELSE <<>>

(***************************************************************************)
(* Class variables and fields (class_analyzer.py 315-361).                 *)
(***************************************************************************)
endswith(s, suffix) ==
    /\ Len(Chars(suffix)) <= Len(Chars(s))
    /\ SubSeq(Chars(s), Len(Chars(s)) - Len(Chars(suffix)) + 1, Len(Chars(s)))
           = Chars(suffix)

\* dir of a library class, whose MRO holds library classes only
LibraryDir(cls) ==
    {n \in Names : \E i \in DOMAIN Mro[cls] : LibraryDict[Mro[cls][i]][n].kind # "absent"}

\* set(dir(abc.ABC)) and set(dir(BaseModel)), taken at construction
_abc_attrs == LibraryDir("ABC")

_base_model_attrs == LibraryDir("BaseModel")

\* _get_base_attributes that takes the bases' own namespaces for their dir
_get_base_attributes_OwnOnly(cls) ==
    {n \in Names : \E i \in DOMAIN __bases__(cls) : InDict(__bases__(cls)[i], n)}

_get_base_attributes(cls) ==
    UNION {dir(__bases__(cls)[i]) : i \in DOMAIN __bases__(cls)}

_should_skip_variable(name, value, base_attrs) ==
    \/ startswith(name, "__") /\ endswith(name, "__")
    \/ inspect_isfunction(value)
    \/ value.kind \in {"property", "classmethod", "staticmethod"}
    \/ name \in _abc_attrs
    \/ name \in _base_model_attrs

\* vars(cls): the names of the class's own namespace
vars_(cls) == SelectSeq(NameOrder, LAMBDA n : InDict(cls, n))

RECURSIVE VariablesLoop(_, _, _, _)
VariablesLoop(cls, names, i, base_attrs) ==
    IF i > Len(names) THEN <<>>
    ELSE IF _should_skip_variable(names[i], __dict__(cls, names[i]), base_attrs)
    THEN VariablesLoop(cls, names, i + 1, base_attrs)
    ELSE <<[name         |-> names[i],
            is_protected |-> startswith(names[i], "_") /\ ~startswith(names[i], "__"),
            is_private   |-> startswith(names[i], "__"),
            is_redefined |-> names[i] \notin base_attrs]>>
         \o VariablesLoop(cls, names, i + 1, base_attrs)

_get_class_variables(cls) ==
    VariablesLoop(cls, vars_(cls), 1, _get_base_attributes(cls))

\* Python values a field declaration deals with: None, the sentinels of
\* dataclasses, pydantic and inspect, the int 5, the classes int and list
PyNone == "None"

MISSING == "MISSING"

PydanticUndefined == "PydanticUndefined"

Parameter_empty == "empty"

\* str(value)
str(value) ==
    CASE value = MISSING -> "<dataclasses._MISSING_TYPE object>"
      [] value = Parameter_empty -> "<class 'inspect._empty'>"
      [] value = "int"  -> "<class 'int'>"
      [] value = "list" -> "<class 'list'>"
      [] OTHER -> value

\* a declaration that gives no default, or no default factory
NoValue == "<no value>"

\* name: int, name: int = None, name: int = 5, name: int = field/Field(
\* default_factory=list); a default and a factory together are rejected when
\* the class is created
FieldDeclarations ==
    {[default |-> d, default_factory |-> NoValue] : d \in {NoValue, PyNone, "5"}}
    \cup {[default |-> NoValue, default_factory |-> "list"]}

FieldName(i) == "f" \o ToString(i)

\* the classes whose bodies declare the fields
FieldOwners == {"A", "M"}

\* dataclasses.fields(cls): the Field objects of the nearest decorated class
\* and of what it inherits; what is not given is dataclasses.MISSING
fields(cls) ==
    IF \E o \in FieldOwners \cap dataclassIds : issubclass(cls, o)
    THEN [i \in DOMAIN declaredFields |->
            [name            |-> FieldName(i),
             type            |-> "int",
             default         |-> IF declaredFields[i].default = NoValue THEN MISSING
                                 ELSE declaredFields[i].default,
             default_factory |-> IF declaredFields[i].default_factory = NoValue
                                 THEN MISSING
                                 ELSE declaredFields[i].default_factory]]
    ELSE <<>>

\* cls.model_fields: the FieldInfo objects; a default not given is
\* PydanticUndefined, a factory not given is None
model_fields(cls) ==
    IF issubclass(cls, "M")
    THEN [i \in DOMAIN declaredFields |->
            [name            |-> FieldName(i),
             annotation      |-> "int",
             default         |-> IF declaredFields[i].default = NoValue
                                 THEN PydanticUndefined
                                 ELSE declaredFields[i].default,
             default_factory |-> IF declaredFields[i].default_factory = NoValue
                                 THEN PyNone
                                 ELSE declaredFields[i].default_factory,
             description     |-> PyNone]]
    ELSE <<>>

\* FieldInfo.is_required()
is_required(field) ==
    field.default = PydanticUndefined /\ field.default_factory = PyNone

\* one entry of the list _extract_pydantic_fields builds
PydanticFieldInfo(field) ==
    [name            |-> field.name,
     type            |-> str(field.annotation),
     default         |-> IF field.default # PyNone THEN str(field.default) ELSE None,
     default_factory |-> IF field.default_factory # PyNone
                         THEN str(field.default_factory) ELSE None,
     description     |-> IF field.description # PyNone THEN field.description ELSE "",
     required        |-> is_required(field)]

\* _extract_pydantic_fields reporting a field required when it has no default
_extract_pydantic_fields_RequiredByDefault(cls) ==
    IF ~issubclass_BaseModel(cls) THEN <<>>
    ELSE [i \in DOMAIN model_fields(cls) |->
            [PydanticFieldInfo(model_fields(cls)[i])
               EXCEPT !.required = model_fields(cls)[i].default = PydanticUndefined]]

_extract_pydantic_fields(cls) ==
    IF ~issubclass_BaseModel(cls) THEN <<>>
    ELSE [i \in DOMAIN model_fields(cls) |-> PydanticFieldInfo(model_fields(cls)[i])]

\* one entry of the list _extract_dataclass_fields builds
DataclassFieldInfo(field) ==
    [name            |-> field.name,
     type            |-> str(field.type),
     default         |-> IF field.default # Parameter_empty
                         THEN str(field.default) ELSE None,
     default_factory |-> IF field.default_factory # Parameter_empty
                         THEN str(field.default_factory) ELSE None,
     description     |-> ""]

_extract_dataclass_fields(cls) ==
    IF ~is_dataclass(cls) THEN <<>>
    ELSE [i \in DOMAIN fields(cls) |-> DataclassFieldInfo(fields(cls)[i])]

\* _get_class_fields asking for the record type first
_get_class_fields_DataclassFirst(cls) ==
    IF is_dataclass(cls) THEN _extract_dataclass_fields(cls)
    ELSE IF issubclass_BaseModel(cls) THEN _extract_pydantic_fields(cls)
    ELSE <<>>

_get_class_fields(cls) ==
    IF issubclass_BaseModel(cls) THEN _extract_pydantic_fields(cls)
    ELSE IF is_dataclass(cls) THEN _extract_dataclass_fields(cls)
    ELSE <<>>

(***************************************************************************)
(* Class-info assembly (class_analyzer.py 50-111).                         *)
(***************************************************************************)
getdoc(cls) == "Doc of " \o cls

\* inspect.isabstract: some abstract method is left unimplemented
inspect_isabstract(cls) == \E n \in Names : getattr(cls, n).abstract

_has_abc_base(cls) ==
    \E i \in DOMAIN __bases__(cls) : __bases__(cls)[i] = "ABC"

parent_classes(cls) ==
    SelectSeq(__bases__(cls), LAMBDA b : b # "object")

AlreadyProcessed == "Already processed"

Stub(cls) == [name |-> __name__(cls), description |-> AlreadyProcessed]

\* the dict literal of _build_class_info around an evaluated methods list
ClassInfo(cls, methods) ==
    IF methods.exc # "none" THEN Raise(methods.exc, Stub(cls))
    ELSE Ret([name            |-> __name__(cls),
              description     |-> getdoc(cls),
              is_abstract     |-> inspect_isabstract(cls) \/ _has_abc_base(cls),
              is_dataclass    |-> is_dataclass(cls),
              is_pydantic     |-> issubclass_BaseModel(cls),
              parent_classes  |-> parent_classes(cls),
              methods         |-> methods.val,
              properties      |-> _get_class_properties(cls),
              fields          |-> _get_class_fields(cls),
              class_variables |-> _get_class_variables(cls)])

_build_class_info(cls) == ClassInfo(cls, _get_class_methods(cls))

\* marks cls seen and builds its descriptor
AddAndBuild(cls, seen, info) ==
    [exc |-> info.exc, val |-> info.val, seen |-> seen \cup {cls}]

\* _analyze_class without line 81: the class is not marked seen
_analyze_class_NoMark(cls, seen) ==
    IF cls \in seen THEN [exc |-> "none", val |-> Stub(cls), seen |-> seen]
    ELSE [exc |-> _build_class_info(cls).exc, val |-> _build_class_info(cls).val,
          seen |-> seen]

\* one step of the comprehension of analyze: the descriptor of cls and the
\* seen set after it; the class is marked seen before its descriptor is built
_analyze_class(cls, seen) ==
    IF cls \in seen THEN [exc |-> "none", val |-> Stub(cls), seen |-> seen]
    ELSE AddAndBuild(cls, seen, _build_class_info(cls))

\* the list comprehension [self._analyze_class(cls) for cls in classes],
\* from position i on, acc the descriptors built so far
RECURSIVE AnalyzeFrom(_, _, _, _), AnalyzeStep(_, _, _, _)
AnalyzeFrom(classes, i, seen, acc) ==
    IF i > Len(classes) THEN [exc |-> "none", val |-> acc, seen |-> seen]
    ELSE AnalyzeStep(classes, i, acc, _analyze_class(classes[i], seen))

\* AnalyzeStep collecting the descriptors in reverse
AnalyzeStep_Prepend(classes, i, acc, r) ==
    IF r.exc # "none" THEN [exc |-> r.exc, val |-> <<>>, seen |-> r.seen]
    ELSE AnalyzeFrom(classes, i + 1, r.seen, <<r.val>> \o acc)

AnalyzeStep(classes, i, acc, r) ==
    IF r.exc # "none" THEN [exc |-> r.exc, val |-> <<>>, seen |-> r.seen]
    ELSE AnalyzeFrom(classes, i + 1, r.seen, Append(acc, r.val))

(***************************************************************************)
(* json.dumps (class_analyzer.py 67-75): the text as its sequence of JSON  *)
(* tokens; keys are written in the insertion order of the dict literals.   *)
(***************************************************************************)
Tok(k, v) == [k |-> k, v |-> v]

Punct(c) == Tok("punct", c)

DumpStr(s) == <<Tok("str", s)>>

DumpBool(b) == <<Tok("lit", IF b THEN "true" ELSE "false")>>

\* Optional[str]: None is written null
DumpOptStr(s) == IF s = None THEN <<Tok("lit", "null")>> ELSE DumpStr(s)

\* items separated by commas, from item i on
RECURSIVE CommaJoinFrom(_, _)
CommaJoinFrom(items, i) ==
    IF i > Len(items) THEN <<>>
    ELSE (IF i > 1 THEN <<Punct(",")>> ELSE <<>>) \o items[i]
         \o CommaJoinFrom(items, i + 1)

\* a list of already written items (given as a function on 1..n)
DumpList(items) ==
    <<Punct("[")>> \o CommaJoinFrom(items \o <<>>, 1) \o <<Punct("]")>>

\* key: value pairs separated by commas, from pair i on
RECURSIVE DumpItemsFrom(_, _, _)
DumpItemsFrom(keys, vals, i) ==
    IF i > Len(keys) THEN <<>>
    ELSE (IF i > 1 THEN <<Punct(",")>> ELSE <<>>)
         \o DumpStr(keys[i]) \o <<Punct(":")>> \o vals[i]
         \o DumpItemsFrom(keys, vals, i + 1)

DumpDict(keys, vals) ==
    <<Punct("{")>> \o DumpItemsFrom(keys, vals, 1) \o <<Punct("}")>>

DumpMethod(m) ==
    DumpDict(<<"name", "type", "is_abstract", "is_protected", "is_private",
               "is_magic", "source", "is_redefined">>,
             <<DumpStr(m.name), DumpStr(m.type), DumpBool(m.is_abstract),
               DumpBool(m.is_protected), DumpBool(m.is_private),
               DumpBool(m.is_magic), DumpOptStr(m.source),
               DumpBool(m.is_redefined)>>)

DumpProperty(q) ==
    DumpDict(<<"name", "type", "is_abstract", "is_protected", "is_private",
               "source_getter", "source_setter", "is_redefined">>,
             <<DumpStr(q.name), DumpStr(q.type), DumpBool(q.is_abstract),
               DumpBool(q.is_protected), DumpBool(q.is_private),
               DumpOptStr(q.source_getter), DumpOptStr(q.source_setter),
               DumpBool(q.is_redefined)>>)

DumpVariable(v) ==
    DumpDict(<<"name", "is_protected", "is_private", "is_redefined">>,
             <<DumpStr(v.name), DumpBool(v.is_protected), DumpBool(v.is_private),
               DumpBool(v.is_redefined)>>)

DumpField(f) ==
    IF "required" \in DOMAIN f
    THEN DumpDict(<<"name", "type", "default", "default_factory", "description",
                    "required">>,
                  <<DumpStr(f.name), DumpStr(f.type), DumpOptStr(f.default),
                    DumpOptStr(f.default_factory), DumpStr(f.description),
                    DumpBool(f.required)>>)
    ELSE DumpDict(<<"name", "type", "default", "default_factory", "description">>,
                  <<DumpStr(f.name), DumpStr(f.type), DumpOptStr(f.default),
                    DumpOptStr(f.default_factory), DumpStr(f.description)>>)

IsStubDict(d) == DOMAIN d = {"name", "description"}

DumpClass(d) ==
    IF IsStubDict(d)
    THEN DumpDict(<<"name", "description">>, <<DumpStr(d.name), DumpStr(d.description)>>)
    ELSE DumpDict(
        <<"name", "description", "is_abstract", "is_dataclass", "is_pydantic",
          "parent_classes", "methods", "properties", "fields", "class_variables">>,
        <<DumpStr(d.name), DumpStr(d.description), DumpBool(d.is_abstract),
          DumpBool(d.is_dataclass), DumpBool(d.is_pydantic),
          DumpList([i \in DOMAIN d.parent_classes |-> DumpStr(d.parent_classes[i])]),
          DumpList([i \in DOMAIN d.methods |-> DumpMethod(d.methods[i])]),
          DumpList([i \in DOMAIN d.properties |-> DumpProperty(d.properties[i])]),
          DumpList([i \in DOMAIN d.fields |-> DumpField(d.fields[i])]),
          DumpList([i \in DOMAIN d.class_variables |->
                        DumpVariable(d.class_variables[i])])>>)

json_dumps(batch) ==
    DumpDict(<<"classes">>,
             <<DumpList([i \in DOMAIN batch.classes |-> DumpClass(batch.classes[i])])>>)

(***************************************************************************)
(* json.loads: the reader of that text. A parsed value is                  *)
(*   [t, s, keys, items]: t = "str" | "lit" with text s, "arr" with items, *)
(*   "obj" with keys and, position by position, their values in items.     *)
(***************************************************************************)
JStr(s) == [t |-> "str", s |-> s, keys |-> <<>>, items |-> <<>>]

JLit(s) == [t |-> "lit", s |-> s, keys |-> <<>>, items |-> <<>>]

JArr(items) == [t |-> "arr", s |-> "", keys |-> <<>>, items |-> items]

JObj(keys, items) == [t |-> "obj", s |-> "", keys |-> keys, items |-> items]

RECURSIVE ParseValue(_, _), ParseArray(_, _, _), ParseObject(_, _, _, _)
ParseValue(toks, i) ==
    LET tok == toks[i]
    IN  CASE tok.k = "str" -> [v |-> JStr(tok.v), next |-> i + 1]
          [] tok.k = "lit" -> [v |-> JLit(tok.v), next |-> i + 1]
          [] tok = Punct("[") -> ParseArray(toks, i + 1, <<>>)
          [] tok = Punct("{") -> ParseObject(toks, i + 1, <<>>, <<>>)

ParseArray(toks, i, acc) ==
    IF toks[i] = Punct("]") THEN [v |-> JArr(acc), next |-> i + 1]
    ELSE IF toks[i] = Punct(",") THEN ParseArray(toks, i + 1, acc)
    ELSE LET r == ParseValue(toks, i)
         IN  ParseArray(toks, r.next, Append(acc, r.v))

ParseObject(toks, i, keys, acc) ==
    IF toks[i] = Punct("}") THEN [v |-> JObj(keys, acc), next |-> i + 1]
    ELSE IF toks[i] = Punct(",") THEN ParseObject(toks, i + 1, keys, acc)
    ELSE LET r == ParseValue(toks, i + 2)
         IN  ParseObject(toks, r.next, Append(keys, toks[i].v), Append(acc, r.v))

json_loads(text) == ParseValue(text, 1).v

\* obj[key] of a parsed object
JGet(obj, key) ==
    obj.items[CHOOSE i \in DOMAIN obj.keys : obj.keys[i] = key]

(***************************************************************************)
(* The public operations on the live analyzer instance.                    *)
(***************************************************************************)
\* the classes the caller passes, and the argument lists it can form
BatchClasses == {"A", "B1", "C"}

BatchArgs == UNION {[1..n -> BatchClasses] : n \in 0..MaxBatch}

NoBatch == [classes |-> <<>>]

\* the classes whose full descriptor a returned batch carries
FullyDescribed(classes, descriptors) ==
    {classes[i] : i \in {j \in DOMAIN descriptors : ~IsStubDict(descriptors[j])}}

\* analyzer = ClassAnalyzer()
__init__ ==
    /\ _seen_classes' = {}
    /\ delivered' = {}
    /\ result' = [op |-> "__init__", args |-> <<>>, exc |-> "none",
                  value |-> NoBatch, text |-> <<>>, preSeen |-> {},
                  preDelivered |-> {}, first |-> FALSE]
    /\ UNCHANGED <<world, responses>>

\* the state after a public call whose comprehension ended as r
Finish(op, classes, r) ==
    /\ _seen_classes' = r.seen
    /\ delivered' = IF r.exc = "none"
                    THEN delivered \cup FullyDescribed(classes, r.val)
                    ELSE delivered
    /\ result' = [op |-> op, args |-> classes, exc |-> r.exc,
                  value |-> IF r.exc = "none" /\ op = "analyze"
                            THEN [classes |-> r.val] ELSE NoBatch,
                  text |-> IF r.exc = "none" /\ op = "to_json"
                           THEN json_dumps([classes |-> r.val]) ELSE <<>>,
                  preSeen |-> _seen_classes, preDelivered |-> delivered,
                  first |-> result.op = "__init__"]
    /\ UNCHANGED <<world, responses>>

\* Call with a seen set that starts empty at every call
Call_PerCallSeen(op, classes) ==
    Finish(op, classes, AnalyzeFrom(classes, 1, {}, <<>>))

Call(op, classes) ==
    Finish(op, classes, AnalyzeFrom(classes, 1, _seen_classes, <<>>))

analyze(classes) == Call("analyze", classes)

to_json(classes) == Call("to_json", classes)

(***************************************************************************)
(* The Applicant aggregate (src/models/domain/aggregate_roots.py 17-48).   *)
(* Applicant.responses is a dict: a function whose domain is the set of    *)
(* its keys; a Response value object is its message.                       *)
(***************************************************************************)
JobIds == {"job1", "job2"}

Messages == {"hello", "again"}

\* the literal of line 36
ResponseLimit == 5

\* self.responses = {}
EmptyResponses == [job_id \in {} |-> <<>>]

\* d.get(key, default)
dict_get(d, key, default) == IF key \in DOMAIN d THEN d[key] ELSE default

\* d[key] = value
dict_setitem(d, key, value) ==
    [k \in DOMAIN d \cup {key} |-> IF k = key THEN value ELSE d[k]]

\* add_response that refuses a response from the limit on (>= for >)
add_response_AtLimit(d, job_id, response) ==
    IF Len(dict_get(d, job_id, <<>>)) >= ResponseLimit
    THEN [exc |-> "ValueError",
          responses |-> dict_setitem(d, job_id, dict_get(d, job_id, <<>>))]
    ELSE [exc |-> "none",
          responses |-> dict_setitem(d, job_id,
                            Append(dict_get(d, job_id, <<>>), response))]

\* the rest of add_response on the dict in which line 34 has set the key
AfterSetdefault(d, job_id, response) ==
    IF Len(d[job_id]) > ResponseLimit
    THEN [exc |-> "ValueError", responses |-> d]
    ELSE [exc |-> "none",
          responses |-> dict_setitem(d, job_id, Append(d[job_id], response))]

\* Applicant.add_response on the dict d: the exception raised, or "none", and
\* the dict the call leaves
add_response(d, job_id, response) ==
    AfterSetdefault(dict_setitem(d, job_id, dict_get(d, job_id, <<>>)),
                    job_id, response)

\* Applicant.delete_response on the dict d: self.responses[job_id] raises
\* KeyError for a job without a list, and the for statement unpacks each
\* Response of the list into two names, which raises TypeError at the first one
delete_response(d, job_id, response) ==
    IF job_id \notin DOMAIN d THEN [exc |-> "KeyError", responses |-> d]
    ELSE IF d[job_id] = <<>> THEN [exc |-> "none", responses |-> d]
    ELSE [exc |-> "TypeError", responses |-> d]

(***************************************************************************)
(* Worlds.                                                                 *)
(***************************************************************************)
EmptyNamespace == [n \in Names |-> Absent]

\* what a class can declare under one attribute name
Declarations(n) ==
    {Absent, Var, Function(n, 1, TRUE), ClassMethod(n, 1), StaticMethod(n, 1)}
    \cup {Function(n, c, FALSE) : c \in 1..NumCodes}
    \cup {Property(n, c) : c \in 1..NumCodes}

\* a sample hierarchy: A declares an abstract run, a property _run and
\* __eq__; B1 overrides run; B2 declares a class variable; C declares __init__
SampleWorld ==
    [c \in ClassIds |->
        CASE c = "A"  -> [EmptyNamespace EXCEPT !["run"] = Function("run", 1, TRUE),
                                                !["_run"] = Property("_run", 1),
                                                !["__eq__"] = Function("__eq__", 1, FALSE)]
          [] c = "B1" -> [EmptyNamespace EXCEPT !["run"] = Function("run", 2, FALSE)]
          [] c = "B2" -> [EmptyNamespace EXCEPT !["__run"] = Var]
          [] c = "C"  -> [EmptyNamespace EXCEPT !["__init__"] = Function("__init__", 1, FALSE)]]

\* the same, with B1 holding a plain value under the name of a function of B2
ClashWorld ==
    [SampleWorld EXCEPT !["B1"]["__run"] = Var,
                        !["B2"]["__run"] = Function("__run", 1, FALSE)]

InitResult ==
    [op |-> "__init__", args |-> <<>>, exc |-> "none", value |-> NoBatch,
     text |-> <<>>, preSeen |-> {}, preDelivered |-> {}, first |-> FALSE]

Init ==
    /\ classDict \in {SampleWorld, ClashWorld}
    /\ sourceAvailable \in IF classDict = SampleWorld THEN BOOLEAN ELSE {TRUE}
    /\ dataclassIds = {}
    /\ declaredFields = <<>>
    /\ classSource = <<>>
    /\ _seen_classes = {}
    /\ delivered = {}
    /\ responses = EmptyResponses
    /\ result = InitResult

Next ==
    \/ __init__
    \/ \E classes \in BatchArgs : analyze(classes)
    \/ \E classes \in BatchArgs : to_json(classes)

Spec == Init /\ [][Next]_vars

\* ClassAnalyzer().analyze(cls): a fresh analyzer applied to one class
AnalyzeFresh(cls) ==
    /\ result.op = "__init__"
    /\ _seen_classes = {}
    /\ analyze(<<cls>>)

\* every hierarchy in which the classes declare one attribute name: all four
\* classes, with and without retrievable source, for the name run; for the
\* other names, which differ in their spelling only, the classes A and B1
InitMembers ==
    /\ \E attr \in Names : \E decl \in [ClassIds -> Declarations(attr)] :
          /\ attr # "run" => decl["B2"] = Absent /\ decl["C"] = Absent
          /\ classDict = [c \in ClassIds |-> [EmptyNamespace EXCEPT ![attr] = decl[c]]]
    /\ sourceAvailable \in BOOLEAN
    /\ sourceAvailable \/ classDict["A"]["run"] # Absent \/ classDict["B1"]["run"] # Absent
       \/ classDict["B2"]["run"] # Absent \/ classDict["C"]["run"] # Absent
    /\ dataclassIds = {}
    /\ declaredFields = <<>>
    /\ classSource = <<>>
    /\ _seen_classes = {}
    /\ delivered = {}
    /\ responses = EmptyResponses
    /\ result = InitResult

NextMembers == \E cls \in ClassIds : AnalyzeFresh(cls)

SpecMembers == InitMembers /\ [][NextMembers]_vars

\* record types and schema models. Either the classes declare no members,
\* A and M declare the same list of fields, and any of A, B1 and M is
\* decorated with @dataclass; or no class declares fields, A and B1 declare
\* __init__ or __replace__, and any of the two is decorated
RecordClasses == ClassIds \cup {"M"}

FieldLists == UNION {[1..n -> FieldDeclarations] : n \in 0..MaxFields}

InitRecords ==
    /\ \/ /\ classDict = [c \in ClassIds |-> EmptyNamespace]
          /\ declaredFields \in FieldLists
          /\ dataclassIds \in SUBSET {"A", "B1", "M"}
       \/ /\ \E attr \in {"__init__", "__replace__"} :
                \E decl \in [{"A", "B1"} -> Declarations(attr)] :
                   classDict = [c \in ClassIds |->
                                   IF c \in {"A", "B1"}
                                   THEN [EmptyNamespace EXCEPT ![attr] = decl[c]]
                                   ELSE EmptyNamespace]
          /\ declaredFields = <<>>
          /\ dataclassIds \in SUBSET {"A", "B1"}
    /\ sourceAvailable = TRUE
    /\ classSource = <<>>
    /\ _seen_classes = {}
    /\ delivered = {}
    /\ responses = EmptyResponses
    /\ result = InitResult

NextRecords == \E cls \in RecordClasses : AnalyzeFresh(cls)

SpecRecords == InitRecords /\ [][NextRecords]_vars

\* the decorator expressions nested to a depth: d, a lambda, and around an
\* expression x the attribute x.a (x.b around an attribute) and the call x()
RECURSIVE DecoratorExprs(_)
DecoratorExprs(depth) ==
    IF depth = 0 THEN {ast_Name("d"), ast_Lambda}
    ELSE DecoratorExprs(depth - 1)
         \cup {ast_Attribute(x, IF x.node = "Attribute" THEN "b" ELSE "a") :
                  x \in DecoratorExprs(depth - 1)}
         \cup {ast_Call(x) : x \in DecoratorExprs(depth - 1)}

DecoratorLists ==
    UNION {[1..n -> DecoratorExprs(MaxDepth)] : n \in 0..MaxDecorators}

\* self._get_method_decorators(cls, method_name) on the class A
GetDecorators(method_name) ==
    /\ result.op = "__init__"
    /\ result' = [InitResult EXCEPT
                     !.op = "_get_method_decorators",
                     !.args = <<method_name>>,
                     !.value = [decorators |-> _get_method_decorators("A", method_name)]]
    /\ UNCHANGED <<world, _seen_classes, delivered, responses>>

\* the source of A: a function stop decorated with @e, and a function run
\* with any list of decorators
InitDecorators ==
    /\ \E decorator_list \in DecoratorLists :
          classSource = <<ast_FunctionDef("stop", <<ast_Name("e")>>),
                          ast_FunctionDef("run", decorator_list)>>
    /\ sourceAvailable \in BOOLEAN
    /\ classDict = SampleWorld
    /\ dataclassIds = {}
    /\ declaredFields = <<>>
    /\ _seen_classes = {}
    /\ delivered = {}
    /\ responses = EmptyResponses
    /\ result = InitResult

NextDecorators == \E method_name \in {"run", "stop", "walk"} : GetDecorators(method_name)

SpecDecorators == InitDecorators /\ [][NextDecorators]_vars

\* a function written under the name __run and bound under another name of
\* the class body: its __name__ stays __run
Alias == Function("__run", 1, FALSE)

\* every hierarchy in which the classes declare the attribute run, as any
\* kind of member or as the function Alias, and C declares a method _run of
\* its own, with retrievable source
InitAliases ==
    /\ \E decl \in [ClassIds -> Declarations("run") \cup {Alias}] :
          classDict = [c \in ClassIds |->
                          [EmptyNamespace EXCEPT
                              !["run"] = decl[c],
                              !["_run"] = IF c = "C" THEN Function("_run", 1, FALSE)
                                          ELSE Absent]]
    /\ sourceAvailable = TRUE
    /\ dataclassIds = {}
    /\ declaredFields = <<>>
    /\ classSource = <<>>
    /\ _seen_classes = {}
    /\ delivered = {}
    /\ responses = EmptyResponses
    /\ result = InitResult

NextAliases == \E cls \in ClassIds : AnalyzeFresh(cls)

SpecAliases == InitAliases /\ [][NextAliases]_vars

\* the state after a call on the aggregate that ended as r
FinishApplicant(op, args, r) ==
    /\ responses' = r.responses
    /\ result' = [InitResult EXCEPT !.op = op, !.args = args, !.exc = r.exc]
    /\ UNCHANGED <<world, _seen_classes, delivered>>

\* applicant = Applicant(id_, user_info)
Applicant__init__ ==
    FinishApplicant("Applicant", <<>>, [exc |-> "none", responses |-> EmptyResponses])

\* applicant.add_response(job_id, response)
AddResponse(job_id, response) ==
    FinishApplicant("add_response", <<job_id, response>>,
                    add_response(responses, job_id, response))

\* applicant.delete_response(job_id, response)
DeleteResponse(job_id, response) ==
    FinishApplicant("delete_response", <<job_id, response>>,
                    delete_response(responses, job_id, response))

InitApplicant ==
    /\ classDict = SampleWorld
    /\ sourceAvailable = TRUE
    /\ dataclassIds = {}
    /\ declaredFields = <<>>
    /\ classSource = <<>>
    /\ _seen_classes = {}
    /\ delivered = {}
    /\ responses = EmptyResponses
    /\ result = [InitResult EXCEPT !.op = "Applicant"]

NextApplicant ==
    \/ Applicant__init__
    \/ \E job_id \in JobIds : \E response \in Messages : AddResponse(job_id, response)
    \/ \E job_id \in JobIds : \E response \in Messages : DeleteResponse(job_id, response)

SpecApplicant == InitApplicant /\ [][NextApplicant]_vars

(***************************************************************************)
(* Properties.                                                             *)
(***************************************************************************)
Returned == result.op \in {"analyze", "to_json"} /\ result.exc = "none"

Positions == DOMAIN result.args

FirstOccurrence(i) == \A j \in 1..(i - 1) : result.args[j] # result.args[i]

OccursTwice(c) ==
    \E i, j \in Positions : i # j /\ result.args[i] = c /\ result.args[j] = c

FullKeys == {"methods", "properties", "fields", "class_variables"}

\* the descriptors analyze returned
Descriptors == result.value.classes

IsFull(d) == FullKeys \subseteq DOMAIN d

IsStubOf(d, c) == d = [name |-> c, description |-> "Already processed"]

\* the batch read back from the text to_json returned
Parsed == json_loads(result.text)

ParsedEntries == JGet(Parsed, "classes").items

KeySet(obj) == {obj.keys[i] : i \in DOMAIN obj.keys}

ParsedIsFull(e) == FullKeys \subseteq KeySet(e)

ParsedIsStubOf(e, c) ==
    /\ e.keys = <<"name", "description">>
    /\ e.items = <<JStr(c), JStr("Already processed")>>

\* entry i of the batch a call returned, whichever the operation
EntryIsFull(i) ==
    IF result.op = "analyze" THEN IsFull(Descriptors[i])
    ELSE ParsedIsFull(ParsedEntries[i])

EntryIsStub(i) ==
    IF result.op = "analyze" THEN IsStubOf(Descriptors[i], result.args[i])
    ELSE ParsedIsStubOf(ParsedEntries[i], result.args[i])

\* C1 as stated: in a returned analyze call, a class passed more than once
\* gets a full descriptor at its first occurrence and the two-key stub at every
\* later one, and the full descriptors are at most as many as the distinct
\* classes passed
C1_FirstFullLaterStub ==
    result.op = "analyze" /\ result.exc = "none" =>
        /\ \A i \in Positions : OccursTwice(result.args[i]) =>
              IF FirstOccurrence(i) THEN IsFull(Descriptors[i])
              ELSE IsStubOf(Descriptors[i], result.args[i])
        /\ Cardinality({i \in Positions : IsFull(Descriptors[i])})
              <= Cardinality({result.args[i] : i \in Positions})

\* C1 amended: the first occurrence gets the full descriptor only if the
\* instance had not seen the class before the call; otherwise it gets the
\* stub too
C1_FirstFullUnlessSeen ==
    result.op = "analyze" /\ result.exc = "none" =>
        /\ \A i \in Positions : OccursTwice(result.args[i]) =>
              IF FirstOccurrence(i) /\ result.args[i] \notin result.preSeen
              THEN IsFull(Descriptors[i]) /\ Descriptors[i].name = result.args[i]
              ELSE IsStubOf(Descriptors[i], result.args[i])
        /\ Cardinality({i \in Positions : IsFull(Descriptors[i])})
              <= Cardinality({result.args[i] : i \in Positions})

C1_Witness ==
    /\ result.op = "analyze" /\ result.exc = "none"
    /\ \E i, j \in Positions :
          /\ i < j /\ result.args[i] = result.args[j] /\ FirstOccurrence(i)
          /\ result.args[i] \notin result.preSeen
          /\ IsFull(Descriptors[i])
          /\ IsStubOf(Descriptors[j], result.args[j])

\* C2: a class whose full descriptor an earlier analyze or to_json call of
\* this instance returned gets the stub in every later call, and the first
\* call on a freshly constructed instance describes every class in full at
\* its first occurrence
C2_SeenPersistsAcrossCalls ==
    Returned =>
        \A i \in Positions :
            /\ result.args[i] \in result.preDelivered => EntryIsStub(i)
            /\ result.first /\ FirstOccurrence(i) => EntryIsFull(i)

C2_Witness ==
    /\ Returned /\ result.op = "to_json" /\ ~result.first
    /\ \E i \in Positions : result.args[i] \in result.preDelivered /\ EntryIsStub(i)
    /\ \E i \in Positions : result.args[i] \notin result.preSeen /\ EntryIsFull(i)

\* C3: what analyze returns has the sole key "classes", with one entry per
\* argument, in argument order, entry i named after class i; the text of
\* to_json parses back to a batch of the same length and order
C3_OneEntryPerArgumentInOrder ==
    /\ result.op = "analyze" /\ result.exc = "none" =>
          /\ DOMAIN result.value = {"classes"}
          /\ Len(Descriptors) = Len(result.args)
          /\ \A i \in Positions : Descriptors[i].name = __name__(result.args[i])
    /\ result.op = "to_json" /\ result.exc = "none" =>
          /\ Parsed.t = "obj" /\ Parsed.keys = <<"classes">>
          /\ JGet(Parsed, "classes").t = "arr"
          /\ Len(ParsedEntries) = Len(result.args)
          /\ \A i \in Positions :
                /\ ParsedEntries[i].t = "obj"
                /\ JGet(ParsedEntries[i], "name") = JStr(__name__(result.args[i]))

C3_Witness ==
    /\ result.op = "to_json" /\ result.exc = "none"
    /\ Len(result.args) >= 2 /\ result.args[1] # result.args[2]
    /\ result.args[1] \in result.preSeen /\ result.args[2] \notin result.preSeen
    /\ Len(ParsedEntries) = 2
    /\ JGet(ParsedEntries[2], "name") = JStr(__name__(result.args[2]))

\* the state after a call analyze([cls]) that returned the full descriptor
AnalyzedOne ==
    /\ result.op = "analyze" /\ result.exc = "none"
    /\ Len(result.args) = 1
    /\ IsFull(Descriptors[1])

TheClass == result.args[1]

TheMember(n) == getattr(TheClass, n)

MethodsNamed(d, n) == {i \in DOMAIN d.methods : d.methods[i].name = n}

PropertiesNamed(d, n) == {i \in DOMAIN d.properties : d.properties[i].name = n}

IsMethod(member) == member.kind \in {"function", "method"}

SkippedAsDataclass(cls, n) == n \in {"__init__", "__replace__"} /\ is_dataclass(cls)

\* the positions in cls.__bases__ of the bases that expose n as a plain function
FunctionBases(cls, n) ==
    {i \in DOMAIN __bases__(cls) : getattr(__bases__(cls)[i], n).kind = "function"}

BaseMember(cls, i, n) == getattr(__bases__(cls)[i], n)

FirstFunctionBase(cls, n) == BaseMember(cls, Min(FunctionBases(cls, n)), n)

\* C4: a method whose name is in the class's own namespace passes the method
\* test without regard to the bases, and its descriptor has is_redefined true
C4_DeclaredIsRedefined ==
    AnalyzedOne =>
        \A n \in Names :
            InDict(TheClass, n) /\ IsMethod(TheMember(n)) =>
                /\ _is_method_redefined(TheClass, n, TheMember(n)) = Ret(TRUE)
                /\ ~SkippedAsDataclass(TheClass, n) => MethodsNamed(Descriptors[1], n) # {}
                /\ \A i \in MethodsNamed(Descriptors[1], n) :
                       Descriptors[1].methods[i].is_redefined

C4_Witness ==
    /\ AnalyzedOne
    /\ \E n \in Names :
          /\ __dict__(TheClass, n).kind = "function"
          /\ \E b \in FunctionBases(TheClass, n) :
                BaseMember(TheClass, b, n).code = TheMember(n).code
          /\ \E i \in MethodsNamed(Descriptors[1], n) :
                Descriptors[1].methods[i].is_redefined

\* what the source capture yields when it is attempted
Captured(fn) == IF sourceAvailable THEN SourceText(fn) ELSE None

C7_MagicNeverPrivate ==
    result.op = "analyze" /\ result.exc = "none" =>
        \A k \in DOMAIN Descriptors :
            IsFull(Descriptors[k]) =>
                \A i \in DOMAIN Descriptors[k].methods :
                    /\ Descriptors[k].methods[i].name \in _init_magic_methods =>
                          /\ Descriptors[k].methods[i].is_magic
                          /\ ~Descriptors[k].methods[i].is_private
                          /\ ~Descriptors[k].methods[i].is_protected
                    /\ Descriptors[k].methods[i].is_private =>
                          /\ startswith(Descriptors[k].methods[i].name, "__")
                          /\ Descriptors[k].methods[i].name \notin _init_magic_methods

C7_Witness ==
    /\ AnalyzedOne
    /\ \E i \in DOMAIN Descriptors[1].methods :
          /\ Descriptors[1].methods[i].name = "__eq__"
          /\ Descriptors[1].methods[i].is_magic
          /\ ~Descriptors[1].methods[i].is_private

\* an inherited property that fails both redefinition tests
InheritedUnchangedProperty(n) ==
    /\ ~InDict(TheClass, n)
    /\ isinstance_property(TheMember(n))
    /\ _is_method_redefined(TheClass, n, TheMember(n)) = Ret(FALSE)
    /\ _is_property_redefined(TheClass, n, TheMember(n)) = Ret(FALSE)

OverriddenPlainMethod(n) ==
    /\ __dict__(TheClass, n).kind = "function"
    /\ \E b \in FunctionBases(TheClass, n) :
          BaseMember(TheClass, b, n).code # TheMember(n).code
    /\ \A k \in DOMAIN __mro__(TheClass) :
          __dict__(__mro__(TheClass)[k], n).kind # "property"

AbstractAndOverride(i, j, n) ==
    /\ IsFull(Descriptors[i]) /\ IsFull(Descriptors[j])
    /\ __dict__(result.args[i], n).kind = "function"
    /\ __dict__(result.args[i], n).abstract
    /\ \E b \in DOMAIN __bases__(result.args[j]) :
          __bases__(result.args[j])[b] = result.args[i]
    /\ __dict__(result.args[j], n).kind = "function"
    /\ ~__dict__(result.args[j], n).abstract

\* C10 as stated, the source being retrievable: the base's descriptor lists
\* the method with is_abstract true, is_redefined true and no source; the
\* subclass's lists the override with is_abstract false, is_redefined true
\* and its source text
C10_AbstractBaseWithoutSource ==
    result.op = "analyze" /\ result.exc = "none" /\ sourceAvailable =>
        \A i, j \in Positions : \A n \in Names :
            AbstractAndOverride(i, j, n) =>
                /\ MethodsNamed(Descriptors[i], n) # {}
                /\ \A k \in MethodsNamed(Descriptors[i], n) :
                      /\ Descriptors[i].methods[k].is_abstract
                      /\ Descriptors[i].methods[k].is_redefined
                      /\ Descriptors[i].methods[k].source = None
                /\ MethodsNamed(Descriptors[j], n) # {}
                /\ \A k \in MethodsNamed(Descriptors[j], n) :
                      /\ ~Descriptors[j].methods[k].is_abstract
                      /\ Descriptors[j].methods[k].is_redefined
                      /\ Descriptors[j].methods[k].source # None

\* C10 amended: both descriptors carry the source text of their own
\* declaration whenever the source can be retrieved
C10_AbstractBaseWithSource ==
    result.op = "analyze" /\ result.exc = "none" =>
        \A i, j \in Positions : \A n \in Names :
            AbstractAndOverride(i, j, n) =>
                /\ MethodsNamed(Descriptors[i], n) # {}
                /\ \A k \in MethodsNamed(Descriptors[i], n) :
                      /\ Descriptors[i].methods[k].is_abstract
                      /\ Descriptors[i].methods[k].is_redefined
                      /\ Descriptors[i].methods[k].source
                            = Captured(__dict__(result.args[i], n))
                /\ MethodsNamed(Descriptors[j], n) # {}
                /\ \A k \in MethodsNamed(Descriptors[j], n) :
                      /\ ~Descriptors[j].methods[k].is_abstract
                      /\ Descriptors[j].methods[k].is_redefined
                      /\ Descriptors[j].methods[k].source
                            = Captured(__dict__(result.args[j], n))

C10_Witness ==
    /\ result.op = "analyze" /\ result.exc = "none"
    /\ \E i, j \in Positions : \E n \in Names :
          /\ AbstractAndOverride(i, j, n)
          /\ \E k \in MethodsNamed(Descriptors[i], n) :
                /\ Descriptors[i].methods[k].is_abstract
                /\ Descriptors[i].methods[k].source # None
          /\ \E k \in MethodsNamed(Descriptors[j], n) :
                /\ ~Descriptors[j].methods[k].is_abstract
                /\ Descriptors[j].methods[k].source # None

VariablesNamed(d, n) ==
    {i \in DOMAIN d.class_variables : d.class_variables[i].name = n}

\* some direct base of cls has an attribute named n
BaseExposes(cls, n) ==
    \E b \in DOMAIN __bases__(cls) : hasattr(__bases__(cls)[b], n)

\* C11: a listed class variable has is_redefined true if and only if no
\* direct base of the class has an attribute of its name
C11_VariableRedefinedIffNotInBases ==
    AnalyzedOne =>
        \A i \in DOMAIN Descriptors[1].class_variables :
            Descriptors[1].class_variables[i].is_redefined
                <=> ~BaseExposes(TheClass, Descriptors[1].class_variables[i].name)

C11_Witness ==
    /\ AnalyzedOne
    /\ \E i \in DOMAIN Descriptors[1].class_variables :
          /\ ~Descriptors[1].class_variables[i].is_redefined
          /\ ~InDict(__bases__(TheClass)[1], Descriptors[1].class_variables[i].name)
          /\ hasattr(__bases__(TheClass)[1], Descriptors[1].class_variables[i].name)

\* a name the filter of the class variables lets through
VariableName(n) ==
    /\ ~(startswith(n, "__") /\ endswith(n, "__"))
    /\ n \notin _abc_attrs /\ n \notin _base_model_attrs

\* C12: a class variable a direct base exposes under the same name is absent
\* from the list of the class variables only when the class does not declare
\* it again; when the class declares it again it is listed with is_redefined
\* true
C12_RedeclaredVariableRedefined ==
    AnalyzedOne =>
        \A n \in Names :
            /\ VariableName(n)
            /\ \E b \in DOMAIN __bases__(TheClass) :
                  getattr(__bases__(TheClass)[b], n).kind = "var"
            /\ getattr(TheClass, n).kind = "var"
            => IF InDict(TheClass, n)
               THEN /\ VariablesNamed(Descriptors[1], n) # {}
                    /\ \A i \in VariablesNamed(Descriptors[1], n) :
                          Descriptors[1].class_variables[i].is_redefined
               ELSE VariablesNamed(Descriptors[1], n) = {}

\* C13: a call on classes never raises, and where the source cannot be
\* retrieved the method descriptors carry the absent source
C13_IntrospectionNeverRaises ==
    result.op \in {"analyze", "to_json"} =>
        /\ result.exc = "none"
        /\ result.op = "analyze" /\ ~sourceAvailable =>
              \A k \in DOMAIN Descriptors : IsFull(Descriptors[k]) =>
                  \A i \in DOMAIN Descriptors[k].methods :
                      Descriptors[k].methods[i].source = None

\* the text a field descriptor is to carry for what the declaration gives
Reported(given) ==
    CASE given = NoValue -> None
      [] given = "list"  -> "<class 'list'>"
      [] OTHER           -> given

\* C14: of a schema model and of a record type alike, a field declared
\* without a default is reported with the absent default, one declared
\* without a default factory with the absent default factory, and what is
\* declared is reported as its text
C14_UndeclaredDefaultAbsent ==
    AnalyzedOne =>
        /\ Descriptors[1].fields # <<>> =>
              Len(Descriptors[1].fields) = Len(declaredFields)
        /\ \A i \in DOMAIN Descriptors[1].fields :
              /\ Descriptors[1].fields[i].default
                    = Reported(declaredFields[i].default)
              /\ Descriptors[1].fields[i].default_factory
                    = Reported(declaredFields[i].default_factory)

\* C15: a field of a schema model is reported required if and only if its
\* declaration gives neither a default nor a default factory
C15_RequiredIffNoDefaultNoFactory ==
    AnalyzedOne /\ issubclass_BaseModel(TheClass) =>
        /\ Len(Descriptors[1].fields) = Len(declaredFields)
        /\ \A i \in DOMAIN Descriptors[1].fields :
              Descriptors[1].fields[i].required
                  <=> /\ declaredFields[i].default = NoValue
                      /\ declaredFields[i].default_factory = NoValue

C15_Witness ==
    /\ AnalyzedOne /\ issubclass_BaseModel(TheClass)
    /\ \E i, j \in DOMAIN Descriptors[1].fields :
          /\ declaredFields[i] = [default |-> NoValue, default_factory |-> NoValue]
          /\ Descriptors[1].fields[i].required
          /\ declaredFields[j] = [default |-> NoValue, default_factory |-> "list"]
          /\ ~Descriptors[1].fields[j].required

\* C16: the fields are those of the schema-model extractor for a schema
\* model, those of the record-type extractor for a record type that is no
\* schema model, and none for any other class; a descriptor never holds
\* fields of both kinds
C16_OneFieldExtractor ==
    AnalyzedOne =>
        /\ issubclass_BaseModel(TheClass) =>
              /\ Len(Descriptors[1].fields) = Len(declaredFields)
              /\ \A i \in DOMAIN Descriptors[1].fields :
                    "required" \in DOMAIN Descriptors[1].fields[i]
        /\ ~issubclass_BaseModel(TheClass) /\ is_dataclass(TheClass) =>
              /\ Len(Descriptors[1].fields) = Len(fields(TheClass))
              /\ \A i \in DOMAIN Descriptors[1].fields :
                    "required" \notin DOMAIN Descriptors[1].fields[i]
        /\ ~issubclass_BaseModel(TheClass) /\ ~is_dataclass(TheClass) =>
              Descriptors[1].fields = <<>>

C16_Witness ==
    /\ AnalyzedOne
    /\ issubclass_BaseModel(TheClass) /\ is_dataclass(TheClass)
    /\ Len(Descriptors[1].fields) = 2
    /\ \A i \in DOMAIN Descriptors[1].fields :
          "required" \in DOMAIN Descriptors[1].fields[i]

\* the ordinary inclusion filter lets the member named n of the class through
PassesBothTests(n) ==
    SkipUnless(_is_method_redefined(TheClass, n, TheMember(n)),
               _is_property_redefined(TheClass, n, TheMember(n))) = Ret(FALSE)

\* C17: the methods list of a record type never holds __init__ or
\* __replace__, generated or written by hand; in a class that is no record
\* type a method of these names is listed exactly when it passes the ordinary
\* inclusion filter
C17_RecordTypeHidesInit ==
    AnalyzedOne =>
        \A n \in {"__init__", "__replace__"} :
            IF is_dataclass(TheClass)
            THEN MethodsNamed(Descriptors[1], n) = {}
            ELSE MethodsNamed(Descriptors[1], n) # {}
                    <=> IsMethod(TheMember(n)) /\ PassesBothTests(n)

C17_Witness ==
    /\ AnalyzedOne
    /\ is_dataclass(TheClass)
    /\ \E n \in {"__init__", "__replace__"} :
          /\ __dict__(TheClass, n).kind = "function"
          /\ PassesBothTests(n)
          /\ MethodsNamed(Descriptors[1], n) = {}

\* the expression a decorator calls, behind any number of calls
RECURSIVE Callee(_)
Callee(e) == IF e.node = "Call" THEN Callee(e.func) ELSE e

\* the name the resolution is to give
ResolvedName(e) ==
    CASE Callee(e).node = "Name"      -> Callee(e).id
      [] Callee(e).node = "Attribute" -> Callee(e).attr
      [] OTHER                        -> "unknown_decorator"

\* the decorators of the definition of the function run in the source
RunDecorators == classSource[2].decorator_list

DeclaredType(entry) ==
    IF entry.kind \in {"classmethod", "staticmethod"} THEN entry.kind ELSE "method"

\* C19: a method the class declares as a classmethod is reported with the
\* type "classmethod", one declared as a staticmethod with "staticmethod",
\* any other with "method"
C19_TypeReflectsDeclaration ==
    AnalyzedOne =>
        \A n \in Names :
            InDict(TheClass, n) =>
                \A i \in MethodsNamed(Descriptors[1], n) :
                    Descriptors[1].methods[i].type = DeclaredType(__dict__(TheClass, n))

\* C20: a call answers a class with the stub only if the full descriptor of
\* the class was returned before, by an earlier call of the instance or
\* earlier in the same batch; and the instance has marked no class seen whose
\* descriptor it has not returned
C20_StubOnlyAfterDelivery ==
    /\ Returned =>
          \A i \in Positions :
              EntryIsStub(i) =>
                  \/ result.args[i] \in result.preDelivered
                  \/ \E j \in 1..(i - 1) :
                        result.args[j] = result.args[i] /\ EntryIsFull(j)
    /\ _seen_classes \subseteq delivered

\* the name _process_method reports for the member bound under n: the
\* function's __name__
MethodName(member, n) == IF member.fname # "" THEN member.fname ELSE n

\* descriptor i of the methods list is the one of the member bound under n
DescribesMember(d, i, n) ==
    /\ IsMethod(TheMember(n))
    /\ d.methods[i].name = MethodName(TheMember(n), n)

Held(d, job_id) == dict_get(d, job_id, <<>>)

\* the step is a call add_response(job_id, response)
AddResponseCalled(job_id, response) ==
    /\ result'.op = "add_response"
    /\ result'.args = <<job_id, response>>

\* C22: a call add_response(job_id, r) raises ValueError exactly when the job
\* holds more than 5 responses before it, and then leaves the job's list as
\* it was; otherwise it returns and the job's list is the old one with r
\* appended at the end; the other jobs keep their keys and their lists, and
\* no job holds more than 6 responses after the call
C22_AddResponseLimit ==
    [][\A job_id \in JobIds : \A r \in Messages :
          AddResponseCalled(job_id, r) =>
              /\ result'.exc \in {"none", "ValueError"}
              /\ result'.exc = "ValueError" <=> Len(Held(responses, job_id)) > 5
              /\ result'.exc = "ValueError" =>
                    /\ job_id \in DOMAIN responses'
                    /\ responses'[job_id] = Held(responses, job_id)
              /\ result'.exc = "none" =>
                    /\ job_id \in DOMAIN responses'
                    /\ responses'[job_id] = Append(Held(responses, job_id), r)
              /\ \A other \in JobIds \ {job_id} :
                    /\ other \in DOMAIN responses' <=> other \in DOMAIN responses
                    /\ Held(responses', other) = Held(responses, other)
              /\ \A job \in JobIds : Len(Held(responses', job)) <= 6]_vars

\* a call was refused for a job that holds 6 responses, the last two of
\* them different, while the other job holds a shorter list
C22_Witness ==
    /\ result.op = "add_response" /\ result.exc = "ValueError"
    /\ Len(Held(responses, result.args[1])) = 6
    /\ Held(responses, result.args[1])[5] # Held(responses, result.args[1])[6]
    /\ \E other \in DOMAIN responses :
          other # result.args[1] /\ Len(responses[other]) \in 1..5
====
